---- MODULE Spec2Model ----
(***************************************************************************)
(* Cloth simulation on WebGPU (pbd-cloth-webgpu-2): the MVC core.          *)
(*                                                                         *)
(*   Observable / SimulationModel  - listener lists, strategy, gravity     *)
(*   SimulationView                - position buffer pair, parameter       *)
(*                                   buffer, compute pipeline, bind groups,*)
(*                                   renderFrame                           *)
(*   SimulationController          - frameCount and the display-callback   *)
(*                                   loop                                  *)
(*   cloth_update_pbd / cloth_update_massspring kernels                    *)
(*   makeGrid / createBuffersFromGrid - the single-file program's grid     *)
(*   GPUManager.getInstance / initSimulation - GPU acquisition             *)
(*                                                                         *)
(* The repository keeps several versions of the same classes next to each  *)
(* other.  The version in use is part of the state (obsVariant,            *)
(* ctlVariant, viewVariant) and is chosen in Init.                         *)
(*                                                                         *)
(* Lengths are fixed-point integers, one unit = 0.00001 (1e-5); time is in *)
(* milliseconds.  The host is single threaded: one action is one task of   *)
(* the event loop (a UI change handler, start(), one display callback) or  *)
(* one promise continuation.                                               *)
(***************************************************************************)
EXTENDS Integers, Naturals, Sequences, FiniteSets, TLC

VARIABLES
    obsVariant,      \* "guarded": emit with try/catch; "plain": bare forEach
    ctlVariant,      \* "guarded": loop with try/catch; "plain": bare loop
    viewVariant,     \* "pingpong": synchronous view; "guarded": async view
    listeners,       \* Observable.listeners: event -> sequence of callbacks
    strategy,        \* SimulationModel.strategy
    gravityEnabled,  \* SimulationModel.gravityEnabled
    emitLog,         \* what the last setStrategy / setGravity call did
    posBuffers,      \* SimulationView.posBuffers: 0..1 -> particle -> vec4
    paramBuffer,     \* SimulationView.paramBuffer contents
    computePipeline, \* SimulationView.computePipeline
    bindGroups,      \* SimulationView.bindGroups
    renderPipeline,  \* SimulationView.renderPipeline (a promise when async)
    awaiting,        \* async renderFrame calls suspended at their await
    pipelineCalls,   \* number of createPipeline calls made so far
    frameCount,      \* SimulationController.frameCount
    ctlState,        \* "idle", "running", "stopped"
    rafPending,      \* a display callback is requested and has not run yet
    pendingCallbacks,\* display callbacks requested and not run yet
    renderCalls,     \* view.renderFrame invocations made so far
    frameLog,        \* what the last renderFrame body did
    bufOrigin,       \* who wrote each position buffer last
    cancelRequested, \* the host asked the loop to stop
    activations,     \* number of strategies activated so far
    changes,         \* number of UI change events handled so far
    gridN,           \* makeGrid: the argument n of the call (NoBuf: no call yet)
    gridPhase,       \* makeGrid: "idle", "edges", "returned", "buffers"
    cursor,          \* makeGrid: addEdge calls made so far
    positions,       \* makeGrid: number of particles pushed to positions
    pinned,          \* makeGrid: indices whose pinned flag is 1
    edgeSet,         \* makeGrid: the values of edgeSet, in insertion order
    edgeCount,       \* createBuffersFromGrid: edgeCount (NoBuf: no buffers)
    navGpu,          \* navigator.gpu exists
    gpuVariant,      \* "checked": getInstance tests adapter, device, context;
                     \* "plain": it does not
    instance,        \* GPUManager.instance (0: unset, k: the k-th object made)
    created,         \* GPUManager objects constructed so far
    adapterRequests, \* navigator.gpu.requestAdapter() calls made so far
    deviceRequests,  \* adapter.requestDevice() calls made so far
    calls,           \* the initSimulation calls: position and outcome
    kernelIn,        \* kernel run on its own: inPositions of the last pass
    kernelOut,       \* kernel run on its own: outPositions of the last pass
    kernelSize,      \* params.clothSize of the pass (0: a single edge)
    kernelGravity,   \* params.gravityEnabled > 0.5
    kernelRest,      \* params.spacing: the springs' rest length
    kernelRun,       \* "none", "pbd", "massSpring", "edge": the last pass
    kernelSteps,     \* passes made so far
    posArrayLength,  \* single-file program: particles in the position buffer
    driveIndex,      \* single-file program: index of the driven vertex
    gridGen,         \* makeGrid calls made so far
    resGen,          \* which makeGrid call each resource of the frame is from
    pinnedBuffer,    \* single-file program: the pinned flags on the GPU
    edgesIndexBuffer,\* single-file program: the edge list on the GPU
    pbdFrames,       \* frameLoop callbacks run so far
    pbdFrame         \* what the last frameLoop callback issued and used

\* The MVC application's state.
appVars == <<obsVariant, ctlVariant, viewVariant, listeners, strategy,
             gravityEnabled, emitLog, posBuffers, paramBuffer, computePipeline,
             bindGroups, renderPipeline, awaiting, pipelineCalls, frameCount,
             ctlState, rafPending, frameLog, bufOrigin, cancelRequested,
             activations, changes, pendingCallbacks, renderCalls>>

\* The controller's counts of requested callbacks and renderFrame calls.
countVars == <<pendingCallbacks, renderCalls>>

\* The grid builder's state.
gridVars == <<gridN, gridPhase, cursor, positions, pinned, edgeSet, edgeCount>>

\* What the MVC classes never touch.
\* GPU acquisition state.
gpuVars == <<navGpu, gpuVariant, instance, created, adapterRequests,
             deviceRequests, calls>>

\* A compute kernel run on its own input.
kernelVars == <<kernelIn, kernelOut, kernelSize, kernelGravity, kernelRest,
                kernelRun, kernelSteps>>

\* The single-file program's frame loop and the resources it uses.
frameVars == <<posArrayLength, driveIndex, gridGen, resGen, pinnedBuffer,
               edgesIndexBuffer, pbdFrames, pbdFrame>>

extVars == <<gridVars, frameVars, gpuVars, kernelVars>>

vars == <<appVars, extVars>>

----------------------------------------------------------------------------
(* Bounds of the exploration *)

ClothSize == 2          \* grid side n (the views use 32)
MaxFrames == 4          \* loop iterations explored
MaxChanges == 2         \* UI change events explored
MaxListeners == 2       \* callbacks per event, the view's included
MaxCalls == 2           \* initSimulation calls explored

(* Program constants, in model units *)

Spacing == 5000                 \* this.spacing = 0.05
GravityStep == 100              \* newPos.y -= 0.001
RelaxNum == 5                   \* * 0.05  (RelaxNum / RelaxDen)
RelaxDen == 100
StiffNum == 1                   \* stiffness 0.1 (StiffNum / StiffDen)
StiffDen == 10
FrameMs == 16                   \* frameCount * 0.016
WorkgroupSize == 64             \* @workgroup_size(64)
AsyncTile == 8                  \* Math.ceil(this.clothSize / 8)

NoBuf == 0 - 1

\* What a frame of the single-file program works on: the globals that
\* makeGrid and createBuffersFromGrid assign.
Resources == {"posBuffer", "prevPosBuffer", "pinnedBuffer", "edgesIndexBuffer",
              "edgeCount", "posArrayLength", "driveIndex", "gridN"}

\* No frameLoop callback has run yet.
NoLoopFrame == [ran |-> FALSE, commands |-> <<>>, used |-> [r \in Resources |-> 0],
                writers |-> <<>>, stray |-> 0]
NoPipeline == [id |-> 0, kind |-> "none"]

Events == {"strategyChanged", "gravityChanged"}
Strategies == {"pbd", "massSpring"}
ExtraHandlers == {"h1", "h2"}
Particles == 0 .. (ClothSize * ClothSize - 1)
Callers == 1 .. MaxCalls

----------------------------------------------------------------------------
(* vec4 positions: <<x, y, z, w>>; w is the fixed/pinned flag *)

Vec4(x, y, z, w) == <<x, y, z, w>>
ZeroVec == Vec4(0, 0, 0, 0)

\* A buffer the device created and nobody wrote: WebGPU zero-fills it.
ZeroBuffer == [p \in Particles |-> ZeroVec]

\* `pos.w > 0.5` of both kernels; w holds 0.0 or 1.0.
IsPinned(pos) == 2 * pos[4] > 1

\* SimulationView.initBuffers: the fixed flag of grid cell (x, y).
InitFixed(x, y, n) ==
    IF (x = 0 /\ y = 0) \/ (x = n - 1 /\ y = 0) THEN 1 ELSE 0

\* SimulationView.initBuffers: row-major vertices in the XZ plane.
InitVertex(p, n) ==
    LET x == p % n
        y == p \div n
    IN Vec4(((2 * x - n) * Spacing) \div 2, 0,
            ((2 * y - n) * Spacing) \div 2, InitFixed(x, y, n))

InitVertices == [p \in Particles |-> InitVertex(p, ClothSize)]

\* SimulationView.initializeClothVertices of the async view: XY plane, w = 1.
MassVertex(p, n) ==
    LET x == p % n
        y == p \div n
    IN Vec4(((2 * x - n) * Spacing) \div 2,
            ((2 * y - n) * Spacing) \div 2, 0, 1)

MassVertices == [p \in Particles |-> MassVertex(p, ClothSize)]

----------------------------------------------------------------------------
(* The compute kernels *)

RECURSIVE SqrtSearch(_, _, _)
SqrtSearch(v, lo, hi) ==
    IF lo >= hi THEN lo
    ELSE LET mid == (lo + hi + 1) \div 2
         IN IF mid * mid <= v THEN SqrtSearch(v, mid, hi)
            ELSE SqrtSearch(v, lo, mid - 1)

\* length() of a vector whose squared length is v, rounded down.
ISqrt(v) == SqrtSearch(v, 0, 46340)

\* Neighbour offsets of the PBD kernel: the 8-neighbourhood, dy outer loop.
PBDOffsets == << <<-1, -1>>, <<0, -1>>, <<1, -1>>,
                 <<-1, 0>>,             <<1, 0>>,
                 <<-1, 1>>,  <<0, 1>>,  <<1, 1>> >>

\* Neighbour offsets of the mass-spring kernel, in its array's order.
MSOffsets == << <<1, 0>>, <<-1, 0>>, <<0, 1>>, <<0, -1>> >>

InGrid(nx, ny, size) == nx >= 0 /\ ny >= 0 /\ nx < size /\ ny < size

\* The neighbours of idx that lie in the grid, in loop order.
Neighbours(idx, size, offsets) ==
    LET cand == [k \in 1 .. Len(offsets) |->
                    <<(idx % size) + offsets[k][1],
                      (idx \div size) + offsets[k][2]>>]
        ok == SelectSeq(cand, LAMBDA c : InGrid(c[1], c[2], size))
    IN [k \in 1 .. Len(ok) |-> ok[k][2] * size + ok[k][1]]

RECURSIVE SumAxis(_, _, _)
SumAxis(inPositions, ns, axis) ==
    IF ns = <<>> THEN 0
    ELSE inPositions[Head(ns)][axis] + SumAxis(inPositions, Tail(ns), axis)

\* newPos.y -= 0.001 when params.gravityEnabled > 0.5
ApplyGravity(pos, gravityOn) ==
    IF gravityOn THEN Vec4(pos[1], pos[2] - GravityStep, pos[3], pos[4])
    ELSE pos

\* Mutant of Blend: relaxation factor 1, the particle lands on the average.
BlendFull(cur, sum, count) == sum \div count

\* One axis of `newPos += (avg - newPos) * 0.05`.
Blend(cur, sum, count) ==
    cur + (((sum \div count) - cur) * RelaxNum) \div RelaxDen

\* cloth_update_pbd main(): the value written to outPositions[idx].
PBDKernel(inPositions, idx, size, gravityOn) ==
    LET pos == inPositions[idx]
        g == ApplyGravity(pos, gravityOn)
        ns == Neighbours(idx, size, PBDOffsets)
        count == Len(ns)
    IN IF IsPinned(pos) THEN pos
       ELSE IF count > 0
            THEN Vec4(Blend(g[1], SumAxis(inPositions, ns, 1), count),
                      Blend(g[2], SumAxis(inPositions, ns, 2), count),
                      Blend(g[3], SumAxis(inPositions, ns, 3), count),
                      pos[4])
            ELSE Vec4(g[1], g[2], g[3], pos[4])

\* Mutant of SpringStep: the correction points away from the neighbour.
SpringStepRepel(newPos, neighbor, rest) ==
    LET dx == neighbor[1] - newPos[1]
        dy == neighbor[2] - newPos[2]
        dz == neighbor[3] - newPos[3]
        dist == ISqrt(dx * dx + dy * dy + dz * dz)
        k(d) == (d * (dist - rest) * StiffNum) \div (dist * StiffDen)
    IN IF dist > 0
       THEN Vec4(newPos[1] - k(dx), newPos[2] - k(dy), newPos[3] - k(dz),
                 newPos[4])
       ELSE newPos

\* One spring of the mass-spring loop: pull newPos along dir by
\* (dist - rest) * stiffness.
SpringStep(newPos, neighbor, rest) ==
    LET dx == neighbor[1] - newPos[1]
        dy == neighbor[2] - newPos[2]
        dz == neighbor[3] - newPos[3]
        dist == ISqrt(dx * dx + dy * dy + dz * dz)
        k(d) == (d * (dist - rest) * StiffNum) \div (dist * StiffDen)
    IN IF dist > 0
       THEN Vec4(newPos[1] + k(dx), newPos[2] + k(dy), newPos[3] + k(dz),
                 newPos[4])
       ELSE newPos

RECURSIVE Springs(_, _, _, _)
Springs(newPos, inPositions, ns, rest) ==
    IF ns = <<>> THEN newPos
    ELSE Springs(SpringStep(newPos, inPositions[Head(ns)], rest),
                 inPositions, Tail(ns), rest)

\* cloth_update_massspring main(): the value written to outPositions[idx].
MassSpringKernel(inPositions, idx, size, gravityOn, rest) ==
    LET pos == inPositions[idx]
        g == ApplyGravity(pos, gravityOn)
    IN IF IsPinned(pos) THEN pos
       ELSE Springs(g, inPositions, Neighbours(idx, size, MSOffsets), rest)

\* The invocations of one dispatch: ceil(n*n / 64) workgroups of 64.
Invocations(n) ==
    0 .. (((n * n + WorkgroupSize - 1) \div WorkgroupSize) * WorkgroupSize - 1)

\* dispatchWorkgroups(x, y, 1) of a view for an n x n grid: the synchronous
\* view dispatches ceil(n*n / 64) groups along x; the async view dispatches
\* ceil(n / 8) x ceil(n / 8) groups.
Workgroups(view, n) ==
    IF view = "pingpong"
    THEN <<(n * n + WorkgroupSize - 1) \div WorkgroupSize, 1>>
    ELSE <<(n + AsyncTile - 1) \div AsyncTile, (n + AsyncTile - 1) \div AsyncTile>>

\* The invocations of a dispatch of wg[1] x wg[2] groups of 64 x 1 x 1:
\* <<group x, group y, local x>>.
InvocationGrid(wg) ==
    (0 .. (wg[1] - 1)) \X (0 .. (wg[2] - 1)) \X (0 .. (WorkgroupSize - 1))

\* global_invocation_id.x of an invocation: `let idx = id.x`.
InvocationIdx(inv) == inv[1] * WorkgroupSize + inv[3]

\* One dispatch: every invocation with idx < size*size writes its own
\* particle of the output buffer; the others return at once.
Dispatch(kind, inPositions, outPositions, params) ==
    LET size == params.clothSize
        writers == {i \in Invocations(ClothSize) : i < size * size}
    IN [p \in Particles |->
          IF p \in writers
          THEN IF kind = "pbd"
               THEN PBDKernel(inPositions, p, size, params.gravityEnabled = 1)
               ELSE MassSpringKernel(inPositions, p, size,
                                     params.gravityEnabled = 1, params.spacing)
          ELSE outPositions[p]]

----------------------------------------------------------------------------
(* Observable *)

Min(S) == CHOOSE x \in S : \A y \in S : x <= y

\* Mutant of OnList: unshift instead of push.
OnListUnshift(ls, cb) == <<cb>> \o ls

\* Mutant of OnList: the event's list is started anew on every call.
OnListReplace(ls, cb) == <<cb>>

\* Observable.on: push cb on the event's list (created when missing).
OnList(ls, cb) == Append(ls, cb)

\* Observable.emit with try/catch around each callback: every callback of
\* the list is called; nothing propagates.  throwers: the positions of the
\* list whose callback throws in this call.
EmitGuarded(ls, throwers) ==
    [called |-> ls, outcome |-> "returned"]

\* Observable.emit as a bare forEach: the first throwing callback ends the
\* iteration and the exception leaves emit.
EmitPlain(ls, throwers) ==
    IF throwers = {}
    THEN [called |-> ls, outcome |-> "returned"]
    ELSE [called |-> SubSeq(ls, 1, Min(throwers)), outcome |-> "threw"]

Emit(variant, ls, throwers) ==
    IF variant = "guarded" THEN EmitGuarded(ls, throwers)
    ELSE EmitPlain(ls, throwers)

\* Whether callback cb was reached by a finished emit.
WasCalled(res, cb) == \E k \in 1 .. Len(res.called) : res.called[k] = cb

\* The positions of ls that hold callbacks registered from outside the view.
ExtraPositions(ls) == {k \in 1 .. Len(ls) : ls[k] \in ExtraHandlers}

----------------------------------------------------------------------------
(* SimulationView *)

\* The uniform block as bytes: byte offset -> the f32 word stored there.
WordsAt(words) ==
    [off \in {4 * (k - 1) : k \in 1 .. Len(words)} |-> words[(off \div 4) + 1]]

\* Mutant of HostParamBlock: gravity flag and grid size change places.
HostParamBlockSwapped(time, gravity) ==
    WordsAt(<<time, ClothSize, IF gravity THEN 1 ELSE 0, Spacing>>)

\* updateParams: writeBuffer(paramBuffer, 0,
\*   new Float32Array([time, gravityEnabled ? 1 : 0, clothSize, spacing]))
HostParamBlock(time, gravity) ==
    WordsAt(<<time, IF gravity THEN 1 ELSE 0, ClothSize, Spacing>>)

\* struct Params { time, gravityEnabled, clothSize, spacing : f32 }
ParamsStruct == <<"time", "gravityEnabled", "clothSize", "spacing">>

\* The byte offset of a field of Params: four bytes per preceding f32.
FieldOffset(field) ==
    4 * ((CHOOSE k \in 1 .. Len(ParamsStruct) : ParamsStruct[k] = field) - 1)

\* `params` as the kernels read it from the uniform block.
KernelParams(block) ==
    [time |-> block[FieldOffset("time")],
     gravityEnabled |-> block[FieldOffset("gravityEnabled")],
     clothSize |-> block[FieldOffset("clothSize")],
     spacing |-> block[FieldOffset("spacing")]]

\* What the kernels see after updateParams(time) with the given gravity.
Params(time, gravity) == KernelParams(HostParamBlock(time, gravity))

ZeroParams == [time |-> 0, gravityEnabled |-> 0, clothSize |-> 0, spacing |-> 0]

\* Mutant of BindGroup: both bindings on the same buffer.
BindGroupInPlace(i) == [in |-> i, out |-> i]

\* createCompute: bind group i reads posBuffers[i] (binding 1) and writes
\* posBuffers[(i + 1) % 2] (binding 2).
BindGroup(i) == [in |-> i, out |-> (i + 1) % 2]

BindGroups == [i \in 0 .. 1 |-> BindGroup(i)]

NoBindGroups == [i \in 0 .. 1 |-> [in |-> NoBuf, out |-> NoBuf]]

\* strategy.createPipeline(device): the pipeline object of the n-th call.
Pipeline(n, kind) == [id |-> n, kind |-> kind]

\* createCompute of the synchronous view throws when createPipeline does;
\* the async view catches inside createCompute.
CreateComputeThrows(view, fails) == view = "pingpong" /\ fails

\* this.computePipeline after createCompute ran for strategy kind.
CreateComputePipeline(view, old, kind, n, fails) ==
    IF kind = "none" \/ fails THEN old ELSE Pipeline(n, kind)

\* this.bindGroups after createCompute ran.
CreateComputeBindGroups(view, old, fails) ==
    IF view = "pingpong" /\ ~fails THEN BindGroups ELSE old

\* updateParams(time): queue.writeBuffer of the synchronous view; the async
\* view's updateParams writes nothing.
UpdateParams(view, old, time, gravity) ==
    IF view = "pingpong" THEN Params(time, gravity) ELSE old

\* renderFrame: the bind group index of the compute pass.
ComputeBindIndex(f) == f % 2

\* renderFrame: the index of the position buffer given to setVertexBuffer.
VertexBufferIndex(view, f) == IF view = "pingpong" THEN (f + 1) % 2 ELSE 0

NoFrame == [frame |-> NoBuf, outcome |-> "none", compute |-> FALSE,
            readBuf |-> NoBuf, writeBuf |-> NoBuf, vertexBuf |-> NoBuf,
            pipeline |-> 0, kind |-> "none", params |-> ZeroParams]

\* The commands renderFrame(f) of the synchronous view encodes.
EncodeSync(f, pipe, groups, params, outcome) ==
    [frame |-> f, outcome |-> outcome, compute |-> TRUE,
     readBuf |-> groups[ComputeBindIndex(f)].in,
     writeBuf |-> groups[ComputeBindIndex(f)].out,
     vertexBuf |-> VertexBufferIndex("pingpong", f),
     pipeline |-> pipe.id, kind |-> pipe.kind, params |-> params]

\* The commands the async view's renderFrame(f) encodes: a compute pass
\* without bind group when a compute pipeline exists, then the render pass.
EncodeAsync(f, pipe, params, outcome) ==
    [frame |-> f, outcome |-> outcome, compute |-> pipe # NoPipeline,
     readBuf |-> NoBuf, writeBuf |-> NoBuf,
     vertexBuf |-> VertexBufferIndex("guarded", f),
     pipeline |-> pipe.id, kind |-> pipe.kind, params |-> params]

\* The commands one renderFrame call leaves on the device queue, in queue
\* order.  The synchronous view writes the parameter block (writeBuffer is
\* queued at the call), then submits one command buffer holding the compute
\* pass and the render pass; a throw before submit leaves only the write.
\* The async view writes no parameters; its command buffer holds the
\* compute pass when a pipeline exists, then the render pass, and nothing
\* of an invalid command buffer is queued.
QueuedBy(view, log) ==
    (IF view = "pingpong" /\ log.outcome \in {"submitted", "threw"}
     THEN <<"params">> ELSE <<>>)
    \o (IF log.outcome = "submitted" /\ log.compute
        THEN <<"compute">> ELSE <<>>)
    \o (IF log.outcome = "submitted" THEN <<"render">> ELSE <<>>)

----------------------------------------------------------------------------
(* The state after `new SimulationModel`, `new SimulationView` and
   `new SimulationController` returned. *)

OriginUpload == 0 - 1      \* bufOrigin: written by the host's initial upload
OriginZero == 0 - 2        \* bufOrigin: never written

NoEmit == [event |-> "none", data |-> "none", subscribed |-> <<>>,
           throwers |-> {}, called |-> <<>>, outcome |-> "none",
           observed |-> "none"]

InitMVC ==
    /\ obsVariant \in {"guarded", "plain"}
    /\ ctlVariant \in {"guarded", "plain"}
    /\ viewVariant \in {"pingpong", "guarded"}
    /\ listeners = [e \in Events |->
                      IF e = "strategyChanged" THEN <<"createCompute">>
                      ELSE <<"updateParams">>]
    \* The synchronous view's constructor throws on a null strategy or a
    \* failed createPipeline, so it only exists with a compiled pipeline.
    /\ strategy \in (IF viewVariant = "pingpong" THEN {"pbd"}
                     ELSE {"none", "pbd"})
    /\ \E fails \in BOOLEAN :
          /\ (viewVariant = "pingpong" \/ strategy = "none") => ~fails
          /\ computePipeline =
                CreateComputePipeline(viewVariant, NoPipeline, strategy, 1, fails)
    /\ pipelineCalls = (IF strategy = "none" THEN 0 ELSE 1)
    /\ activations = (IF strategy = "none" THEN 0 ELSE 1)
    /\ gravityEnabled = TRUE
    /\ emitLog = NoEmit
    /\ posBuffers = [i \in 0 .. 1 |->
                       IF i = 1 THEN ZeroBuffer
                       ELSE IF viewVariant = "pingpong" THEN InitVertices
                       ELSE MassVertices]
    /\ bufOrigin = [i \in 0 .. 1 |-> IF i = 0 THEN OriginUpload ELSE OriginZero]
    /\ paramBuffer = ZeroParams
    /\ bindGroups = (IF viewVariant = "pingpong" THEN BindGroups
                     ELSE NoBindGroups)
    /\ renderPipeline = (IF viewVariant = "pingpong" THEN "ready" ELSE "pending")
    /\ awaiting = <<>>
    /\ frameCount = 0
    /\ ctlState = "idle"
    /\ rafPending = FALSE
    /\ pendingCallbacks = 0
    /\ renderCalls = 0
    /\ frameLog = NoFrame
    /\ cancelRequested = FALSE
    /\ changes = 0

\* No rebuild() of the single-file program has run.
InitGridIdle ==
    /\ gridN = NoBuf
    /\ gridPhase = "idle"
    /\ cursor = 0
    /\ positions = 0
    /\ pinned = {}
    /\ edgeSet = <<>>
    /\ edgeCount = NoBuf
    /\ posArrayLength = NoBuf
    /\ driveIndex = NoBuf
    /\ gridGen = 0
    /\ resGen = [r \in Resources |-> 0]
    /\ pinnedBuffer = {}
    /\ edgesIndexBuffer = <<>>
    /\ pbdFrames = 0
    /\ pbdFrame = NoLoopFrame

\* An initSimulation call and what it has done so far.
\*   pc: "idle", "awaitAdapter", "awaitDevice", "running", "rejected"
\*   result: the GPUManager object getInstance resolved to (0: none)
\*   failed: what could not be acquired
\*   error: the exception the call rejected with
\*   mvc: model, view and controller were constructed
\*   started: controller.start() was called
\*   tries: requestAdapter calls made on behalf of this call
NoCall == [pc |-> "idle", result |-> 0, failed |-> "none", error |-> "none",
           mvc |-> FALSE, started |-> FALSE, tries |-> 0]

\* The call whose getInstance resolved to object k and which went on to
\* build the MVC objects and start the loop.
RunningCall(k, tries) ==
    [pc |-> "running", result |-> k, failed |-> "none", error |-> "none",
     mvc |-> TRUE, started |-> TRUE, tries |-> tries]

\* The MVC objects exist: one initSimulation call got its GPUManager.
InitAcquired ==
    /\ navGpu = TRUE
    /\ gpuVariant \in {"checked", "plain"}
    /\ instance = 1
    /\ created = 1
    /\ adapterRequests = 1
    /\ deviceRequests = 1
    /\ calls = [c \in Callers |-> IF c = 1 THEN RunningCall(1, 1) ELSE NoCall]

\* No kernel is run on its own: the buffers are the view's.
InitKernelIdle ==
    /\ kernelIn = InitVertices
    /\ kernelOut = ZeroBuffer
    /\ kernelSize = ClothSize
    /\ kernelGravity = TRUE
    /\ kernelRest = Spacing
    /\ kernelRun = "none"
    /\ kernelSteps = 0

Init == InitMVC /\ InitGridIdle /\ InitAcquired /\ InitKernelIdle

\* Continuations of a settled promise run before the next task.
MicrotasksPending == awaiting # <<>> /\ renderPipeline # "pending"

----------------------------------------------------------------------------
(* Observable.on, SimulationModel.setStrategy / setGravity *)

On(e, cb) ==
    /\ ~MicrotasksPending
    /\ Len(listeners[e]) < MaxListeners
    /\ listeners' = [listeners EXCEPT ![e] = OnList(@, cb)]
    /\ UNCHANGED <<extVars, countVars>>
    /\ UNCHANGED <<obsVariant, ctlVariant, viewVariant, strategy,
                   gravityEnabled, emitLog, posBuffers, paramBuffer,
                   computePipeline, bindGroups, renderPipeline, awaiting,
                   pipelineCalls, frameCount, ctlState, rafPending, frameLog,
                   bufOrigin, cancelRequested, activations, changes>>

\* The positions of ls at which callback cb is subscribed.
PositionsOf(ls, cb) == {k \in 1 .. Len(ls) : ls[k] = cb}

\* observed: the model's field as the callbacks of this emit read it.
EmitRecord(e, data, ls, throwers, res, observed) ==
    [event |-> e, data |-> data, subscribed |-> ls, throwers |-> throwers,
     called |-> res.called, outcome |-> res.outcome, observed |-> observed]

\* Mutant of ObservedByHandlers: emit first, store afterwards.
ObservedBeforeStore(old, new) == old

\* What this.model.strategy / this.model.gravityEnabled hold while the
\* callbacks run: the setters assign the field, then call emit.
ObservedByHandlers(old, new) == new

\* The payload of gravityChanged.
GravityData(enabled) == IF enabled THEN "on" ELSE "off"

\* setStrategy(strategy): store, then emit("strategyChanged", strategy).
\* fails: createPipeline throws in this call; T: the outside callbacks
\* that throw in this call.
SetStrategy(s, fails, T) ==
    LET ls == listeners["strategyChanged"]
        throwers == T \cup (IF CreateComputeThrows(viewVariant, fails)
                            THEN PositionsOf(ls, "createCompute") ELSE {})
        res == Emit(obsVariant, ls, throwers)
        ran == WasCalled(res, "createCompute")
    IN /\ ~MicrotasksPending
       /\ changes < MaxChanges
       /\ T \subseteq ExtraPositions(ls)
       /\ strategy' = s
       /\ computePipeline' =
             (IF ran
              THEN CreateComputePipeline(viewVariant, computePipeline,
                                         ObservedByHandlers(strategy, s),
                                         pipelineCalls + 1, fails)
              ELSE computePipeline)
       /\ bindGroups' = (IF ran
                         THEN CreateComputeBindGroups(viewVariant, bindGroups, fails)
                         ELSE bindGroups)
       /\ pipelineCalls' = (IF ran THEN pipelineCalls + 1 ELSE pipelineCalls)
       /\ emitLog' = EmitRecord("strategyChanged", s, ls, throwers, res,
                                ObservedByHandlers(strategy, s))
       /\ activations' = activations + 1
       /\ changes' = changes + 1
       /\ UNCHANGED <<extVars, countVars>>
       /\ UNCHANGED <<obsVariant, ctlVariant, viewVariant, listeners,
                      gravityEnabled, posBuffers, paramBuffer, renderPipeline,
                      awaiting, frameCount, ctlState, rafPending, frameLog,
                      bufOrigin, cancelRequested>>

\* setGravity(enabled): store, then emit("gravityChanged", enabled).
SetGravity(enabled, T) ==
    LET ls == listeners["gravityChanged"]
        res == Emit(obsVariant, ls, T)
        ran == WasCalled(res, "updateParams")
    IN /\ ~MicrotasksPending
       /\ changes < MaxChanges
       /\ T \subseteq ExtraPositions(ls)
       /\ gravityEnabled' = enabled
       /\ paramBuffer' = (IF ran
                          THEN UpdateParams(viewVariant, paramBuffer, 0,
                                            ObservedByHandlers(gravityEnabled,
                                                               enabled))
                          ELSE paramBuffer)
       /\ emitLog' = EmitRecord("gravityChanged", GravityData(enabled), ls, T,
                                res,
                                GravityData(ObservedByHandlers(gravityEnabled,
                                                               enabled)))
       /\ changes' = changes + 1
       /\ UNCHANGED <<extVars, countVars>>
       /\ UNCHANGED <<obsVariant, ctlVariant, viewVariant, listeners, strategy,
                      posBuffers, computePipeline, bindGroups, renderPipeline,
                      awaiting, pipelineCalls, frameCount, ctlState, rafPending,
                      frameLog, bufOrigin, cancelRequested, activations>>

----------------------------------------------------------------------------
(* SimulationController: start() and the display callback *)

\* Mutant of NextFrameCount: the increment inside the try block, after the
\* renderFrame call, so that a throwing frame skips it.
NextFrameCountInTry(ctl, f, threw) == IF threw THEN f ELSE f + 1

\* frameCount after one loop iteration.  The guarded loop increments after
\* its try/catch, the plain loop post-increments the call's argument: both
\* advance whether or not renderFrame threw.
NextFrameCount(ctl, f, threw) == f + 1

\* Whether the iteration reaches requestAnimationFrame(loop): always in the
\* guarded loop; in the plain loop only when renderFrame returned.
LoopReschedules(ctl, threw) == ctl = "guarded" \/ ~threw

\* Mutant of CallbacksRequested: a loop that requests the next callback in
\* its catch block as well as at its end.
CallbacksRequestedInCatchToo(ctl, threw) ==
    IF ctl = "guarded" /\ threw THEN 2
    ELSE IF LoopReschedules(ctl, threw) THEN 1 ELSE 0

\* requestAnimationFrame(loop) calls one loop iteration makes.
CallbacksRequested(ctl, threw) == IF LoopReschedules(ctl, threw) THEN 1 ELSE 0

\* One call of loop().  texThrows: context.getCurrentTexture() throws in
\* this frame.  The synchronous view encodes and submits in the call; the
\* async view suspends at `await this.renderPipeline` and returns a promise.
Loop(texThrows) ==
    LET f == frameCount
        threw == viewVariant = "pingpong" /\ texThrows
        params == UpdateParams(viewVariant, paramBuffer, f * FrameMs,
                               gravityEnabled)
        enc == EncodeSync(f, computePipeline, bindGroups, params,
                          IF threw THEN "threw" ELSE "submitted")
    IN /\ frameCount' = NextFrameCount(ctlVariant, f, threw)
       /\ rafPending' = LoopReschedules(ctlVariant, threw)
       \* start() calls loop() itself; every later call is a display callback
       \* that was pending.
       /\ pendingCallbacks' = pendingCallbacks
                               - (IF ctlState = "idle" THEN 0 ELSE 1)
                               + CallbacksRequested(ctlVariant, threw)
       /\ renderCalls' = renderCalls + 1
       /\ ctlState' = (IF LoopReschedules(ctlVariant, threw) THEN "running"
                       ELSE "stopped")
       /\ IF viewVariant = "pingpong"
          THEN /\ paramBuffer' = params
               /\ frameLog' = enc
               /\ posBuffers' =
                     (IF threw THEN posBuffers
                      ELSE [posBuffers EXCEPT ![enc.writeBuf] =
                               Dispatch(enc.kind, posBuffers[enc.readBuf],
                                        posBuffers[enc.writeBuf], params)])
               /\ bufOrigin' = (IF threw THEN bufOrigin
                                ELSE [bufOrigin EXCEPT ![enc.writeBuf] = f])
               /\ awaiting' = awaiting
          ELSE /\ awaiting' = Append(awaiting, f)
               /\ UNCHANGED <<paramBuffer, frameLog, posBuffers, bufOrigin>>
       /\ UNCHANGED extVars
       /\ UNCHANGED <<obsVariant, ctlVariant, viewVariant, listeners, strategy,
                      gravityEnabled, emitLog, computePipeline, bindGroups,
                      renderPipeline, pipelineCalls, cancelRequested,
                      activations, changes>>

\* controller.start(): the first loop() call is made by start itself.
Start(texThrows) ==
    /\ ctlState = "idle"
    /\ Loop(texThrows)

\* A callback requested with requestAnimationFrame(loop) is waiting for the
\* display, and no continuation is ahead of it in the microtask queue.
CallbackDue ==
    /\ ctlState = "running"
    /\ rafPending
    /\ ~MicrotasksPending
    /\ frameCount < MaxFrames

\* The display runs the requested callback.
FrameCallback(texThrows) ==
    /\ CallbackDue
    /\ Loop(texThrows)

\* The FrameCallback steps, told by what every loop() call does to
\* frameCount (start()'s own loop() call is made in state "idle").
DisplayFires ==
    /\ CallbackDue
    /\ frameCount' = NextFrameCount(ctlVariant, frameCount, FALSE)

\* The host asks for the loop to stop (page teardown, a test harness).  The
\* controller has no stop(), no flag and no cancelAnimationFrame: nothing
\* in start() or loop() reads the request.
RequestCancel ==
    /\ ctlState = "running"
    /\ ~cancelRequested
    /\ ~MicrotasksPending
    /\ cancelRequested' = TRUE
    /\ UNCHANGED <<extVars, countVars>>
    /\ UNCHANGED <<obsVariant, ctlVariant, viewVariant, listeners, strategy,
                   gravityEnabled, emitLog, posBuffers, paramBuffer,
                   computePipeline, bindGroups, renderPipeline, awaiting,
                   pipelineCalls, frameCount, ctlState, rafPending, frameLog,
                   bufOrigin, activations, changes>>

----------------------------------------------------------------------------
(* The async view: PipelineFactory.createRenderPipeline is async, and
   renderFrame awaits its promise before it encodes anything. *)

\* The render pipeline promise settles: resolved (ok) or rejected.
RenderPipelineSettles(ok) ==
    /\ renderPipeline = "pending"
    /\ renderPipeline' = (IF ok THEN "ready" ELSE "failed")
    /\ UNCHANGED <<extVars, countVars>>
    /\ UNCHANGED <<obsVariant, ctlVariant, viewVariant, listeners, strategy,
                   gravityEnabled, emitLog, posBuffers, paramBuffer,
                   computePipeline, bindGroups, awaiting, pipelineCalls,
                   frameCount, ctlState, rafPending, frameLog, bufOrigin,
                   cancelRequested, activations, changes>>

\* Mutant of AsyncOutcome: a renderFrame that returns before encoding when
\* the view has no compute pipeline.
AsyncOutcomeNeedsCompute(rp, pipe, texThrows) ==
    IF rp = "failed" \/ texThrows THEN "rejected"
    ELSE IF pipe # NoPipeline THEN "invalid"
    ELSE "skipped"

\* What the continuation of renderFrame(f) does.  A rejected promise or a
\* throwing getCurrentTexture rejects renderFrame's own promise, which
\* nobody awaits.  A dispatch without bind group fails validation: the
\* command buffer is invalid and the queue executes none of it.
AsyncOutcome(rp, pipe, texThrows) ==
    IF rp = "failed" \/ texThrows THEN "rejected"
    ELSE IF pipe # NoPipeline THEN "invalid"
    ELSE "submitted"

\* Mutant of Resumed: the continuation registered last runs first.
ResumedLast(q) == q[Len(q)]

\* The renderFrame call whose continuation runs next: the continuations
\* of `await this.renderPipeline` were registered on one promise and run
\* in the order of registration.
Resumed(q) == Head(q)

\* The oldest suspended renderFrame call resumes after its await.
ResumeFrame(texThrows) ==
    /\ MicrotasksPending
    /\ frameLog' = EncodeAsync(Resumed(awaiting), computePipeline, paramBuffer,
                               AsyncOutcome(renderPipeline, computePipeline,
                                            texThrows))
    /\ awaiting' = Tail(awaiting)
    /\ UNCHANGED <<extVars, countVars>>
    /\ UNCHANGED <<obsVariant, ctlVariant, viewVariant, listeners, strategy,
                   gravityEnabled, emitLog, posBuffers, paramBuffer,
                   computePipeline, bindGroups, renderPipeline, pipelineCalls,
                   frameCount, ctlState, rafPending, bufOrigin,
                   cancelRequested, activations, changes>>

----------------------------------------------------------------------------

\* The application: the view's two subscriptions are the only ones.
Next ==
    \/ \E s \in Strategies, fails \in BOOLEAN : SetStrategy(s, fails, {})
    \/ \E enabled \in BOOLEAN : SetGravity(enabled, {})
    \/ \E texThrows \in BOOLEAN : Start(texThrows)
    \/ \E texThrows \in BOOLEAN : FrameCallback(texThrows)
    \/ RequestCancel
    \/ \E ok \in BOOLEAN : RenderPipelineSettles(ok)
    \/ \E texThrows \in BOOLEAN : ResumeFrame(texThrows)

Spec == Init /\ [][Next]_vars

\* The application under a fair display and a fair microtask queue: a
\* requested display callback is eventually run, a settled promise's
\* continuation is eventually resumed.
SpecDisplay ==
    /\ Init
    /\ [][Next]_vars
    /\ WF_frameCount(DisplayFires)
    /\ WF_vars(\E texThrows \in BOOLEAN : ResumeFrame(texThrows))

\* The model as an Observable with further subscribers, before start().
NextObs ==
    \/ \E e \in Events, cb \in ExtraHandlers : On(e, cb)
    \/ \E s \in Strategies, fails \in BOOLEAN,
          T \in SUBSET (1 .. MaxListeners) : SetStrategy(s, fails, T)
    \/ \E enabled \in BOOLEAN, T \in SUBSET (1 .. MaxListeners) :
          SetGravity(enabled, T)

SpecObs == Init /\ [][NextObs]_vars

----------------------------------------------------------------------------
(* The grid builder of the single-file PBD program: makeGrid(n), called by
   createBuffersFromGrid(n), called by rebuild().  One AddEdge step is one
   addEdge call of the two edge loops. *)

MaxGridN == 5           \* largest grid side given to makeGrid
MaxRebuilds == 2        \* rebuild() calls, the one at page load included
MaxLoopFrames == 2      \* frameLoop callbacks

\* const constraintsIterations = 8
constraintsIterations == 8

\* The driven vertex: indexPos(ci, cj), ci = cj = Math.floor((n - 1) / 2)
DrivenVertex(n) == ((n - 1) \div 2) + ((n - 1) \div 2) * n

\* const indexPos = (i, j) => i + j * n
indexPos(i, j, n) == i + j * n

\* The position loops push one particle for every 0 <= i, j < n.
PositionsPushed(n) == IF n > 0 THEN n * n ELSE 0

\* pinned[indexPos(...)] = 1 for the four corners.  An assignment at a
\* negative index sets a property, not an element of the array.
PinnedCorners(n) ==
    {c \in {indexPos(0, 0, n), indexPos(n - 1, 0, n),
            indexPos(0, n - 1, n), indexPos(n - 1, n - 1, n)} : c >= 0}

\* The number of squares the edge loops visit (0 <= i, j < n - 1).
Squares(n) == IF n > 1 THEN (n - 1) * (n - 1) ELSE 0

\* The six addEdge calls for the square at (i, j), in the order of the code:
\* triangles (a, b, d) and (a, d, c).
SquareEdges(i, j, n) ==
    LET a == indexPos(i, j, n)
        b == indexPos(i + 1, j, n)
        c == indexPos(i, j + 1, n)
        d == indexPos(i + 1, j + 1, n)
    IN << <<a, b>>, <<b, d>>, <<d, a>>, <<a, d>>, <<d, c>>, <<c, a>> >>

\* The k-th addEdge call of makeGrid(n), k from 0; j is the outer loop.
Proposal(k, n) ==
    LET sq == k \div 6
    IN SquareEdges(sq % (n - 1), sq \div (n - 1), n)[(k % 6) + 1]

\* Mutant of EdgeKey: the key keeps the order of the arguments.
EdgeKeyAsGiven(a, b) == <<a, b>>

\* const key = a < b ? `${a}_${b}` : `${b}_${a}`
EdgeKey(a, b) == IF a < b THEN <<a, b>> ELSE <<b, a>>

\* edgeSet.has(key): every stored value [a, b] sits under the key made of it.
HasKey(es, key) == \E k \in 1 .. Len(es) : EdgeKey(es[k][1], es[k][2]) = key

\* addEdge(a, b)
addEdge(es, a, b) ==
    IF a = b THEN es
    ELSE IF HasKey(es, EdgeKey(a, b)) THEN es
    ELSE Append(es, <<a, b>>)

\* rebuild() -> createBuffersFromGrid(n) -> makeGrid(n), up to the edge
\* loops: positions, pinned flags, an empty edgeSet.  gridN is
\* parseInt(gridSizeElem.value): nothing checks it.
MakeGrid(n) ==
    /\ gridPhase \in {"idle", "buffers"}
    /\ gridGen < MaxRebuilds
    /\ gridN' = n
    /\ positions' = PositionsPushed(n)
    /\ pinned' = PinnedCorners(n)
    /\ driveIndex' = DrivenVertex(n)
    /\ edgeSet' = <<>>
    /\ cursor' = 0
    /\ gridPhase' = "edges"
    /\ gridGen' = gridGen + 1
    /\ resGen' = [resGen EXCEPT !["gridN"] = gridGen + 1,
                                !["driveIndex"] = gridGen + 1]
    /\ UNCHANGED <<edgeCount, posArrayLength, pinnedBuffer, edgesIndexBuffer,
                   pbdFrames, pbdFrame, appVars, gpuVars, kernelVars>>

\* The next addEdge call of the edge loops.
AddEdge ==
    /\ gridPhase = "edges"
    /\ cursor < 6 * Squares(gridN)
    /\ edgeSet' = addEdge(edgeSet, Proposal(cursor, gridN)[1],
                          Proposal(cursor, gridN)[2])
    /\ cursor' = cursor + 1
    /\ UNCHANGED <<gridN, gridPhase, positions, pinned, edgeCount, frameVars,
                   appVars, gpuVars, kernelVars>>

\* The edge loops are done: makeGrid returns { positions, pinned, edges, n }.
MakeGridReturns ==
    /\ gridPhase = "edges"
    /\ cursor = 6 * Squares(gridN)
    /\ gridPhase' = "returned"
    /\ UNCHANGED <<gridN, cursor, positions, pinned, edgeSet, edgeCount,
                   frameVars, appVars, gpuVars, kernelVars>>

\* createBuffersFromGrid after makeGrid returned: the buffers are created
\* from the grid, edgeCount = size.edges.length / 2.
CreateBuffersFromGrid ==
    /\ gridPhase = "returned"
    /\ posArrayLength' = positions
    /\ pinnedBuffer' = pinned
    /\ edgeCount' = Len(edgeSet)
    /\ edgesIndexBuffer' = edgeSet
    /\ resGen' = [r \in Resources |->
                     IF r \in {"gridN", "driveIndex"} THEN resGen[r] ELSE gridGen]
    /\ gridPhase' = "buffers"
    /\ UNCHANGED <<gridN, cursor, positions, pinned, edgeSet, driveIndex, gridGen,
                   pbdFrames, pbdFrame, appVars, gpuVars, kernelVars>>

\* Math.ceil(a / b) for a >= 0
CeilDiv(a, b) == (a + b - 1) \div b

Cmd(op, pipeline, groups) == [op |-> op, pipeline |-> pipeline, groups |-> groups]

Repeat(c, k) == [i \in 1 .. k |-> c]

\* The constraint dispatches as the first loop of frameLoop would make them
\* if it dispatched: on pipelineCompute, whose entry point is cs_pbd.
ConstraintPassOnIntegrationPipeline(edges) ==
    Repeat(Cmd("dispatch", "cs_pbd", CeilDiv(edges, WorkgroupSize)),
           constraintsIterations)

\* The constraint dispatches of a frame are on window._constraintsPipeline
\* (entry point cs_constraints), all in one compute pass.
ConstraintPass(edges) ==
    Repeat(Cmd("dispatch", "cs_constraints", CeilDiv(edges, WorkgroupSize)),
           constraintsIterations)

\* What one frameLoop callback hands to the queue, in order: the uniform
\* upload, the copy of the driven vertex, the integration dispatch, the
\* constraintsIterations passes that set pipelineCompute and dispatch
\* nothing, the constraint dispatches, the indexed draw of the render pass.
FrameCommands(particles, edges) ==
    <<Cmd("writeBuffer", "none", 0),
      Cmd("copyBufferToBuffer", "none", 0),
      Cmd("dispatch", "cs_pbd", CeilDiv(particles, WorkgroupSize))>>
    \o Repeat(Cmd("emptyPass", "cs_pbd", 0), constraintsIterations)
    \o ConstraintPass(edges)
    \o <<Cmd("drawIndexed", "render", 0)>>

RECURSIVE Log2(_)
\* floor(log2(k)) for k >= 1
Log2(k) == IF k < 2 THEN 0 ELSE 1 + Log2(k \div 2)

Pow2(e) == 2 ^ e

\* The 32 bits of the float32 that holds the integer k, 0 <= k < 2^24, read
\* as a u32: updateUniform stores edgeCount in a Float32Array, the kernel's
\* Uniforms struct declares edgeCount : u32 at the same offset.
FloatBits(k) ==
    IF k <= 0 THEN 0
    ELSE (Log2(k) + 127) * Pow2(23) + (k - Pow2(Log2(k))) * Pow2(23 - Log2(k))

\* cs_constraints, invocation eidx (gid.x): it runs its body when
\* eidx < u.edgeCount.
ConstraintActive(eidx, count) == eidx < FloatBits(count)

\* The invocations of one cs_constraints dispatch that write positions[p]:
\* invocation eidx stores to positions[i] and to positions[j] of its edge
\* (i, j) = (edges[2 eidx], edges[2 eidx + 1]), each unless it is pinned.
ConstraintWriters(p, edges, pin, count) ==
    {eidx \in 0 .. Len(edges) - 1 :
        /\ eidx < CeilDiv(count, WorkgroupSize) * WorkgroupSize
        /\ ConstraintActive(eidx, count)
        /\ p \notin pin
        /\ p \in {edges[eidx + 1][1], edges[eidx + 1][2]}}

\* The launched invocations past the end of the edge list that run the body
\* all the same (their reads of edges[] are out of bounds).
StrayInvocations(edges, count) ==
    Cardinality({eidx \in Len(edges) .. CeilDiv(count, WorkgroupSize) * WorkgroupSize - 1 :
                    ConstraintActive(eidx, count)})

\* A frameLoop callback that could run inside a later rebuild.
FrameMayRunInsideRebuild(phase) == phase # "idle"

\* A task of the page runs to completion: rebuild() contains no await that
\* waits for anything, so a frameLoop callback runs before or after a
\* rebuild, never inside one; the first requestAnimationFrame(frameLoop)
\* is made after the first rebuild.
FrameMayRun(phase) == phase = "buffers"

\* frameLoop(now): one display callback of the single-file program.  It
\* always ends with requestAnimationFrame(frameLoop).
FrameLoop ==
    /\ FrameMayRun(gridPhase)
    /\ pbdFrames < MaxLoopFrames
    /\ pbdFrames' = pbdFrames + 1
    /\ pbdFrame' = [ran |-> TRUE,
                    commands |-> FrameCommands(posArrayLength, edgeCount),
                    used |-> resGen,
                    writers |-> [p \in 0 .. posArrayLength - 1 |->
                                   ConstraintWriters(p, edgesIndexBuffer,
                                                     pinnedBuffer, edgeCount)],
                    stray |-> StrayInvocations(edgesIndexBuffer, edgeCount)]
    /\ UNCHANGED <<gridVars, posArrayLength, driveIndex, gridGen, resGen,
                   pinnedBuffer, edgesIndexBuffer, appVars, gpuVars, kernelVars>>

NextGrid ==
    \/ \E n \in 0 .. MaxGridN : MakeGrid(n)
    \/ AddEdge
    \/ MakeGridReturns
    \/ CreateBuffersFromGrid
    \/ FrameLoop

\* The single-file program owns no MVC objects: they stay as constructed.
InitGrid ==
    /\ Init
    /\ obsVariant = "plain"
    /\ ctlVariant = "plain"
    /\ viewVariant = "pingpong"
    /\ gpuVariant = "plain"

SpecGrid == InitGrid /\ [][NextGrid]_vars

----------------------------------------------------------------------------
(* GPU acquisition: initSimulation and GPUManager.getInstance.  One action
   is one run of the call between two awaits. *)

\* The exception a failed acquisition rejects with.  The checked
\* getInstance tests each result and throws; the plain one dereferences
\* null (adapter.requestDevice, context.configure).  A rejected
\* requestDevice promise rejects the await in both.
AcquireError(variant, failure) ==
    IF failure = "none" THEN "none"
    ELSE IF failure = "unsupported" THEN "WebGPU not supported"
    ELSE IF failure = "device" THEN "requestDevice rejected"
    ELSE IF variant = "checked" THEN "Failed to get GPU " \o failure
    ELSE "TypeError"

\* Mutant of AcquireOutcome: a missing context is not an error.
AcquireOutcomeLenient(failure) ==
    IF failure \in {"none", "context"} THEN "running" ELSE "rejected"

\* Where a call ends after an acquisition step: no try/catch anywhere in
\* initSimulation or getInstance, so any failure rejects the call.
AcquireOutcome(failure) == IF failure = "none" THEN "running" ELSE "rejected"

\* The call record after the call ended with the given failure ("none":
\* getInstance resolved to object k; the MVC objects are built and
\* controller.start() is called).
EndCall(call, failure, k) ==
    LET ok == AcquireOutcome(failure) = "running"
    IN [call EXCEPT !.pc = AcquireOutcome(failure),
                    !.failed = failure,
                    !.error = AcquireError(gpuVariant, failure),
                    !.result = IF ok THEN k ELSE 0,
                    !.mvc = ok,
                    !.started = ok]

\* initSimulation(canvas, ...) up to the first await of getInstance:
\* the navigator.gpu test, then `if (!GPUManager.instance)`.
InitSimulation(c) ==
    /\ calls[c].pc = "idle"
    /\ IF ~navGpu
       THEN /\ calls' = [calls EXCEPT ![c] = EndCall(@, "unsupported", 0)]
            /\ UNCHANGED adapterRequests
       ELSE IF instance # 0
       THEN /\ calls' = [calls EXCEPT ![c] = EndCall(@, "none", instance)]
            /\ UNCHANGED adapterRequests
       ELSE /\ calls' = [calls EXCEPT ![c].pc = "awaitAdapter",
                                      ![c].tries = @ + 1]
            /\ adapterRequests' = adapterRequests + 1
    /\ UNCHANGED <<navGpu, gpuVariant, instance, created, deviceRequests,
                   appVars, gridVars, frameVars,
                   kernelVars>>

\* requestAdapter() resolved: with an adapter (ok) or with null.
AdapterSettles(c, ok) ==
    /\ calls[c].pc = "awaitAdapter"
    /\ IF ok
       THEN /\ calls' = [calls EXCEPT ![c].pc = "awaitDevice"]
            /\ deviceRequests' = deviceRequests + 1
       ELSE /\ calls' = [calls EXCEPT ![c] = EndCall(@, "adapter", 0)]
            /\ UNCHANGED deviceRequests
    /\ UNCHANGED <<navGpu, gpuVariant, instance, created, adapterRequests,
                   appVars, gridVars, frameVars,
                   kernelVars>>

\* requestDevice() settled (devOk: resolved with a device), then
\* canvas.getContext("webgpu") (ctxOk: not null), context.configure and
\* GPUManager.instance = new GPUManager(...).
DeviceSettles(c, devOk, ctxOk) ==
    LET failure == IF ~devOk THEN "device"
                   ELSE IF ~ctxOk THEN "context" ELSE "none"
    IN /\ calls[c].pc = "awaitDevice"
       /\ calls' = [calls EXCEPT ![c] = EndCall(@, failure, created + 1)]
       /\ IF failure = "none"
          THEN /\ created' = created + 1
               /\ instance' = created + 1
          ELSE UNCHANGED <<created, instance>>
       /\ UNCHANGED <<navGpu, gpuVariant, adapterRequests, deviceRequests,
                      appVars, gridVars, frameVars,
                   kernelVars>>

NextGPU ==
    \/ \E c \in Callers : InitSimulation(c)
    \/ \E c \in Callers, ok \in BOOLEAN : AdapterSettles(c, ok)
    \/ \E c \in Callers, devOk \in BOOLEAN, ctxOk \in BOOLEAN :
          DeviceSettles(c, devOk, ctxOk)

\* Before the first initSimulation call.  The MVC variables are not read
\* by the acquisition; what a call constructs is recorded in calls.
InitGPU ==
    /\ InitMVC
    /\ obsVariant = "guarded"
    /\ ctlVariant = "guarded"
    /\ viewVariant = "pingpong"
    /\ InitGridIdle
    /\ InitKernelIdle
    /\ navGpu \in BOOLEAN
    /\ gpuVariant \in {"checked", "plain"}
    /\ instance = 0
    /\ created = 0
    /\ adapterRequests = 0
    /\ deviceRequests = 0
    /\ calls = [c \in Callers |-> NoCall]

SpecGPU == InitGPU /\ [][NextGPU]_vars

----------------------------------------------------------------------------
(* The kernels on their own: one dispatch over a chosen input buffer, the
   output becoming the next pass's input as in the view's ping-pong. *)

MaxKernelN == 3         \* largest grid side given to a kernel
MaxStretch == 4         \* longest edge, in multiples of the spacing
MaxPasses == 2          \* passes per run

\* A flat grid at height y0: the view's layout, optionally without pins.
FlatVertex(p, n, y0, pins) ==
    LET v == InitVertex(p, n)
    IN Vec4(v[1], y0, v[3], IF pins THEN v[4] ELSE 0)

FlatGrid(n, y0, pins) == [p \in 0 .. (n * n - 1) |-> FlatVertex(p, n, y0, pins)]

\* The buffer a view's grid builder uploads for an n x n cloth: initBuffers
\* of the synchronous view, initializeClothVertices of the async view.
BuiltGrid(view, n) ==
    [p \in 0 .. (n * n - 1) |->
        IF view = "pingpong" THEN InitVertex(p, n) ELSE MassVertex(p, n)]

\* Two particles d apart along an axis; pinA: the first one is pinned.
EdgePair(d, axis, pinA) ==
    [p \in 0 .. 1 |->
        Vec4(IF axis = 1 THEN p * d ELSE 0,
             IF axis = 2 THEN p * d ELSE 0,
             IF axis = 3 THEN p * d ELSE 0,
             IF pinA /\ p = 0 THEN 1 ELSE 0)]

\* One dispatch of a kernel over a size x size grid.
GridPass(kind, inPositions, size, gravityOn, rest) ==
    [p \in DOMAIN inPositions |->
        IF kind = "pbd" THEN PBDKernel(inPositions, p, size, gravityOn)
        ELSE MassSpringKernel(inPositions, p, size, gravityOn, rest)]

\* The mass-spring kernel's body for two particles joined by one spring:
\* each invocation's only neighbour is the other particle.
EdgePass(inPositions, gravityOn, rest) ==
    [p \in DOMAIN inPositions |->
        IF IsPinned(inPositions[p]) THEN inPositions[p]
        ELSE Springs(ApplyGravity(inPositions[p], gravityOn), inPositions,
                     <<1 - p>>, rest)]

\* The input of the next pass: the first pass reads the uploaded buffer,
\* later passes read what the previous pass wrote.
PassInput == IF kernelSteps = 0 THEN kernelIn ELSE kernelOut

RunGridKernel(kind) ==
    /\ kernelSize > 0
    /\ kernelSteps < MaxPasses
    /\ kernelRun \in {"none", kind}
    /\ kernelIn' = PassInput
    /\ kernelOut' = GridPass(kind, PassInput, kernelSize, kernelGravity,
                             kernelRest)
    /\ kernelRun' = kind
    /\ kernelSteps' = kernelSteps + 1
    /\ UNCHANGED <<kernelSize, kernelGravity, kernelRest, appVars, gridVars, frameVars,
                   gpuVars>>

RunEdgeKernel ==
    /\ kernelSize = 0
    /\ kernelSteps < MaxPasses
    /\ kernelIn' = PassInput
    /\ kernelOut' = EdgePass(PassInput, kernelGravity, kernelRest)
    /\ kernelRun' = "edge"
    /\ kernelSteps' = kernelSteps + 1
    /\ UNCHANGED <<kernelSize, kernelGravity, kernelRest, appVars, gridVars, frameVars,
                   gpuVars>>

NextKernel ==
    \/ \E kind \in Strategies : RunGridKernel(kind)
    \/ RunEdgeKernel

\* The inputs: flat grids with or without pinned corners (the synchronous
\* view's upload among them), the async view's upload, and single edges.
InitKernel ==
    /\ InitMVC
    /\ obsVariant = "guarded"
    /\ ctlVariant = "guarded"
    /\ viewVariant = "pingpong"
    /\ InitGridIdle
    /\ InitAcquired
    /\ gpuVariant = "plain"
    /\ kernelGravity \in BOOLEAN
    /\ kernelRun = "none"
    /\ kernelSteps = 0
    /\ \/ /\ kernelSize \in 1 .. MaxKernelN
          /\ kernelRest = Spacing
          /\ \E y0 \in {0 - 3 * GravityStep, 0, 2 * GravityStep},
                pins \in BOOLEAN :
                kernelIn = FlatGrid(kernelSize, y0, pins)
       \/ /\ kernelSize \in 1 .. MaxKernelN
          /\ kernelRest = Spacing
          /\ kernelIn = BuiltGrid("guarded", kernelSize)
       \/ /\ kernelSize = 0
          /\ kernelRest \in {Spacing, 2 * Spacing}
          /\ \E k \in 1 .. MaxStretch, axis \in 1 .. 3, pinA \in BOOLEAN :
                kernelIn = EdgePair(k * Spacing, axis, pinA)
    /\ kernelOut = kernelIn

SpecKernel == InitKernel /\ [][NextKernel]_vars

----------------------------------------------------------------------------
(* Properties *)

\* The position buffer the next compute dispatch will read.
CurrentIndex == bindGroups[ComputeBindIndex(frameCount)].in

\* The particles the synchronous view pins at construction.
PinnedAtInit == {p \in Particles : IsPinned(InitVertices[p])}

\* C1: the compute-input buffer index is toggled exactly once per frame.
\* Whenever the frames bind position buffers, the last frame run is frame
\* frameCount - 1 (one step of the index per loop iteration, thrown frames
\* included), the index it read is the frame-0 index after an even number
\* of frames and its complement after an odd number, and the same holds
\* for the index the next frame will read.
C1_IndexToggles ==
    LET idx0 == bindGroups[ComputeBindIndex(0)].in
        Parity(k) == IF k % 2 = 0 THEN idx0 ELSE 1 - idx0
    IN /\ bindGroups # NoBindGroups => CurrentIndex = Parity(frameCount)
       /\ frameLog.readBuf # NoBuf =>
             /\ frameLog.frame = frameCount - 1
             /\ frameLog.readBuf = Parity(frameLog.frame)

\* C1 witness: two frames ran, the second threw, and the index is back at
\* its frame-0 value.
C1_Witness ==
    /\ frameCount = 2
    /\ frameLog.outcome = "threw"
    /\ frameLog.readBuf = 1
    /\ CurrentIndex = 0

\* C2: a particle pinned at construction keeps its initial position in the
\* buffer every submitted frame writes (and renders), whatever the
\* strategy and the gravity flag.
C2_PinnedStay ==
    (viewVariant = "pingpong" /\ frameLog.outcome = "submitted") =>
        \A p \in PinnedAtInit :
            posBuffers[frameLog.writeBuf][p] = InitVertices[p]

C4_RenderReadsWritten ==
    frameLog.frame # NoBuf =>
        /\ frameLog.vertexBuf = (frameLog.frame + 1) % 2
        /\ frameLog.readBuf # NoBuf => frameLog.vertexBuf = frameLog.writeBuf

\* C5: after a strategy change exactly one pipeline was created per
\* strategy activation, and the view's compute pipeline (the one every
\* later frame sets) is the one created for the current strategy.
C5_OneRebuildPerChange ==
    emitLog.event = "strategyChanged" =>
        /\ pipelineCalls = activations
        /\ computePipeline.id = activations
        /\ computePipeline.kind = strategy
        /\ (frameLog.compute /\ frameLog.outcome # "none") =>
              frameLog.pipeline <= computePipeline.id

\* C6: emit calls the callbacks of the event in subscription order, all of
\* them before it returns: what it called is a prefix of the list, the
\* whole list when it returned, and the list starts with the callback
\* subscribed first (the view's, subscribed in its constructor).
C6_SubscriptionOrder ==
    /\ \A e \in Events :
          listeners[e][1] = (IF e = "strategyChanged" THEN "createCompute"
                             ELSE "updateParams")
    /\ emitLog.event # "none" =>
          /\ Len(emitLog.called) <= Len(emitLog.subscribed)
          /\ emitLog.called = SubSeq(emitLog.subscribed, 1, Len(emitLog.called))
          /\ emitLog.called # <<>>
          /\ emitLog.outcome = "returned" => emitLog.called = emitLog.subscribed

\* C6 witness: an emit over two subscribers returned after calling both.
C6_Witness ==
    /\ emitLog.event = "gravityChanged"
    /\ emitLog.outcome = "returned"
    /\ emitLog.called = <<"updateParams", "h2">>

\* C7: when a callback throws during emit, the callbacks subscribed after
\* it are still called in that emit.
C7_ThrowIsolated ==
    emitLog.throwers # {} => emitLog.called = emitLog.subscribed

\* C8: setStrategy and setGravity return normally whatever the callbacks do.
C8_NoPropagation ==
    emitLog.outcome # "threw"

\* C9: a frame that throws does not end the loop: the next display
\* callback is requested.
C9_LoopSurvives ==
    frameLog.outcome = "threw" => (rafPending /\ ctlState = "running")

\* C10: once cancellation is requested, no further frame runs, no further
\* callback is requested and nothing more is submitted.
C10_CancelStops ==
    [][cancelRequested =>
          /\ frameCount' = frameCount
          /\ frameLog' = frameLog
          /\ awaiting' = awaiting
          /\ (rafPending' => rafPending)]_vars

----------------------------------------------------------------------------

\* Two stored edges join the same unordered pair of particles.
SamePair(e1, e2) == {e1[1], e1[2]} = {e2[1], e2[2]}

\* C11: for every grid side n >= 2 the builder produces exactly n * n
\* particles, and its edge set has no edge from a particle to itself and no
\* unordered pair twice, at every point of the traversal; the returned set
\* holds the (n - 1) * (3n - 1) edges of the triangulated grid.
C11_GridEdgesUnique ==
    (gridN >= 2) =>
        /\ positions = gridN * gridN
        /\ \A k \in 1 .. Len(edgeSet) :
              /\ edgeSet[k][1] # edgeSet[k][2]
              /\ edgeSet[k][1] \in 0 .. (positions - 1)
              /\ edgeSet[k][2] \in 0 .. (positions - 1)
        /\ \A k1, k2 \in 1 .. Len(edgeSet) :
              SamePair(edgeSet[k1], edgeSet[k2]) => k1 = k2
        /\ gridPhase \in {"returned", "buffers"} =>
              Len(edgeSet) = (gridN - 1) * (3 * gridN - 1)
        /\ gridPhase = "buffers" => edgeCount = Len(edgeSet)

\* makeGrid(3) returned: 24 addEdge calls left 16 edges.
C11_Witness ==
    /\ gridN = 3
    /\ gridPhase = "returned"
    /\ cursor = 24
    /\ Len(edgeSet) = 16
    /\ positions = 9

\* C12: a grid side n < 2 is rejected: no positions, pinned flags or edges
\* are produced, the builder does not return a grid and no buffers are
\* created from one.
C12_SmallGridRejected ==
    (gridN < 2) =>
        /\ positions = 0
        /\ pinned = {}
        /\ edgeSet = <<>>
        /\ gridPhase = "idle"

----------------------------------------------------------------------------

\* The calls whose acquisition failed: nothing was cached for them.
FailedCalls == {c \in Callers : calls[c].failed # "none"}

\* C13: the GPU device is resolved once and cached: every getInstance call
\* that resolved, resolved to the same GPUManager object, and adapter and
\* device were requested at most once beyond the attempts that failed,
\* whatever the interleaving of calls.
C13_SingleInstance ==
    /\ \A c1, c2 \in Callers :
          (calls[c1].pc = "running" /\ calls[c2].pc = "running") =>
              calls[c1].result = calls[c2].result
    /\ created <= 1
    /\ adapterRequests <= 1 + Cardinality(FailedCalls)
    /\ deviceRequests <= 1 + Cardinality(FailedCalls)

\* C14: when GPU support is missing or adapter, device or context cannot be
\* acquired, the initSimulation call rejects, has made at most one attempt,
\* and has built no model, view or controller and started no loop; and no
\* call that is still waiting or has rejected has built or started any.
C14_AcquisitionFails ==
    \A c \in Callers :
        /\ calls[c].failed # "none" =>
              /\ calls[c].pc = "rejected"
              /\ calls[c].error # "none"
        /\ calls[c].pc # "running" =>
              /\ ~calls[c].mvc
              /\ ~calls[c].started
              /\ calls[c].result = 0
        /\ calls[c].tries <= 1

\* A call rejected because the canvas gave no context, after its adapter
\* and device requests succeeded.
C14_Witness ==
    \E c \in Callers :
        /\ calls[c].failed = "context"
        /\ calls[c].pc = "rejected"
        /\ calls[c].tries = 1
        /\ deviceRequests >= 1
        /\ instance = 0

----------------------------------------------------------------------------

\* The pipeline in the view was not compiled from the model's strategy: the
\* last activation of that strategy failed to compile.
StalePipeline == strategy # "none" /\ computePipeline.kind # strategy

\* C15: a failed pipeline creation is fatal: the setStrategy call that
\* caused it throws to its caller, and while the view holds no pipeline of
\* the selected strategy no frame dispatches a compute pass (neither with
\* the previous strategy's pipeline nor with any other).
C15_PipelineFailureFatal ==
    /\ []((emitLog.event = "strategyChanged" /\ StalePipeline) =>
             emitLog.outcome = "threw")
    /\ [][StalePipeline =>
             ~(/\ frameLog' # frameLog
               /\ frameLog'.compute
               /\ frameLog'.outcome = "submitted")]_vars

\* C16: every frame that dispatches does so with the parameter block
\* written in that frame: time = frame * 0.016 and the gravity flag of the
\* model at that frame.
C16_ParamsFreshPerFrame ==
    [][(frameLog' # frameLog /\ frameLog'.compute) =>
          frameLog'.params = [time |-> frameLog'.frame * FrameMs,
                              gravityEnabled |-> IF gravityEnabled THEN 1 ELSE 0,
                              clothSize |-> ClothSize,
                              spacing |-> Spacing]]_vars

C18_CurrentStrategyPipeline ==
    /\ [](strategy \in Strategies)
    /\ [][(frameLog' # frameLog /\ frameLog'.compute) =>
             frameLog'.kind = strategy]_vars

----------------------------------------------------------------------------

\* No particle of the buffer is pinned.
NonePinned(buf) == \A p \in DOMAIN buf : ~IsPinned(buf[p])

\* All particles of the buffer are at the same height.
IsFlat(buf) == \A p, q \in DOMAIN buf : buf[p][2] = buf[q][2]

\* The squared distance between the two particles of an edge.
DistSq(buf) ==
    (buf[1][1] - buf[0][1]) * (buf[1][1] - buf[0][1])
    + (buf[1][2] - buf[0][2]) * (buf[1][2] - buf[0][2])
    + (buf[1][3] - buf[0][3]) * (buf[1][3] - buf[0][3])

\* C19: on a flat grid without pinned vertices and with gravity on, one
\* neighbour-averaging pass moves every particle that has a neighbour down
\* by more than 0 and less than the raw gravity decrement 0.001.
C19_GravityDamped ==
    (/\ kernelRun = "pbd"
     /\ kernelGravity
     /\ kernelSize >= 2
     /\ NonePinned(kernelIn)
     /\ IsFlat(kernelIn)) =>
        \A p \in DOMAIN kernelIn :
            /\ kernelIn[p][2] - kernelOut[p][2] > 0
            /\ kernelIn[p][2] - kernelOut[p][2] < GravityStep

\* A 3 x 3 grid at height 0 after one pass: every particle is 0.00095 down.
C19_Witness ==
    /\ kernelRun = "pbd"
    /\ kernelGravity
    /\ kernelSize = 3
    /\ kernelSteps = 1
    /\ NonePinned(kernelIn)
    /\ IsFlat(kernelIn)
    /\ \A p \in DOMAIN kernelIn :
          kernelIn[p][2] = 0 /\ kernelOut[p][2] = 0 - 95

----------------------------------------------------------------------------

\* The invocations of the last frame's dispatch that ran with idx = p: none
\* when the command buffer was not executed.
ProcessedBy(p) ==
    IF frameLog.outcome = "submitted"
    THEN {inv \in InvocationGrid(Workgroups(viewVariant, ClothSize)) :
             InvocationIdx(inv) = p}
    ELSE {}

\* C21: a frame that issued its compute dispatch issued ceil(n*n / 64)
\* workgroups, every particle index below n*n was processed by exactly one
\* invocation, and no invocation wrote outside the n*n particles.
C21_OneInvocationPerParticle ==
    (frameLog.compute /\ frameLog.outcome \in {"submitted", "invalid"}) =>
        /\ Workgroups(viewVariant, ClothSize)[1]
              * Workgroups(viewVariant, ClothSize)[2]
           = (ClothSize * ClothSize + WorkgroupSize - 1) \div WorkgroupSize
        /\ \A p \in Particles : Cardinality(ProcessedBy(p)) = 1
        /\ \A i \in 0 .. 1 : DOMAIN posBuffers[i] = Particles

----------------------------------------------------------------------------

\* C22: every frame whose commands were submitted placed, in this order,
\* its parameter upload, its compute pass and its render pass on the queue,
\* and the frames reach the queue in increasing order: nothing of frame N
\* is queued after something of frame N + 1.
C22_QueueOrder ==
    /\ [](frameLog.outcome = "submitted" =>
             QueuedBy(viewVariant, frameLog) = <<"params", "compute", "render">>)
    /\ [][frameLog' # frameLog => frameLog'.frame > frameLog.frame]_vars

\* C23: within one dispatch no two kernel invocations write the position of
\* the same particle.  The cloth kernels of the MVC program write only
\* outPositions[idx] of their own index (Dispatch builds the output by one
\* write per particle); in the single-file program every particle of the
\* last frame's constraint dispatch must have at most one writing invocation.
C23_NoSharedWrites ==
    pbdFrame.ran =>
        \A p \in DOMAIN pbdFrame.writers : Cardinality(pbdFrame.writers[p]) <= 1

\* The positions of the commands of the last frame that satisfy a test.
CommandsAt(op, pipeline) ==
    {k \in 1 .. Len(pbdFrame.commands) :
        pbdFrame.commands[k].op = op /\ pbdFrame.commands[k].pipeline = pipeline}

C25_FrameUsesOneConstruction ==
    /\ [](pbdFrame.ran =>
            \A r1, r2 \in Resources : pbdFrame.used[r1] = pbdFrame.used[r2])
    /\ [][edgesIndexBuffer' # edgesIndexBuffer =>
            /\ resGen'["edgesIndexBuffer"] = gridGen
            /\ resGen["edgesIndexBuffer"] < gridGen
            /\ \A r \in Resources : resGen'[r] = gridGen]_vars

\* Frames ran on both sides of a rebuild: the last one on the second grid.
C25_Witness ==
    /\ pbdFrames = 2
    /\ pbdFrame.ran
    /\ pbdFrame.used["edgesIndexBuffer"] = 2
    /\ gridN >= 2
    /\ edgesIndexBuffer # <<>>

\* C26: every frame callback requests the next one through the display
\* callback, so under a fair display the loop call of frame f is always
\* eventually followed by the loop call of frame f + 1 (frameCount = k: the
\* calls of frames 0 .. k - 1 have been made).
C26_NextFrameFollows ==
    \A k \in 1 .. MaxFrames - 1 : (frameCount = k) ~> (frameCount = k + 1)

\* The particles of a buffer whose pinned flag is set.
PinnedIn(buf) == {p \in DOMAIN buf : IsPinned(buf[p])}

\* The corners of an n x n grid in row-major order: those of row 0, those
\* of row n - 1.
RowCorners(n, y) == {indexPos(0, y, n), indexPos(n - 1, y, n)}

\* C27: every grid builder pins exactly the two top corners or exactly all
\* four corners and leaves every other particle unpinned.  Checked on the
\* buffer each view's builder uploads, before any pass has run on it.
C27_PinningPolicy ==
    \A view \in {"pingpong", "guarded"} :
        (/\ kernelSteps = 0
         /\ kernelSize >= 2
         /\ kernelIn = BuiltGrid(view, kernelSize)) =>
            \/ PinnedIn(kernelIn) = RowCorners(kernelSize, 0)
            \/ PinnedIn(kernelIn) = RowCorners(kernelSize, kernelSize - 1)
            \/ PinnedIn(kernelIn) = RowCorners(kernelSize, 0)
                                      \cup RowCorners(kernelSize, kernelSize - 1)

----------------------------------------------------------------------------
(* Byte layout of the position buffers, as the host writes them, as the
   kernels index them and as the render pipeline fetches from them *)

\* Float32Array.BYTES_PER_ELEMENT, the size of an f32
FloatBytes == 4

\* The MVC program (view, pipeline factory, strategies' kernels) and the
\* single-file program.
Programs == {"mvc", "single"}

\* Floats the host stores per particle: vertices.set([px, py, pz, fixed],
\* i * 4) in the MVC views, positions.push(x, y, z) in makeGrid.
HostFloats(program) == IF program = "mvc" THEN 4 ELSE 3

\* Byte offset of float c of particle p in the uploaded array.
HostOffset(program, p, c) == (p * HostFloats(program) + c) * FloatBytes

\* Scalars of a WGSL vector type or of a vertex format.
Components(type) ==
    CASE type = "vec4<f32>" -> 4
      [] type = "vec3<f32>" -> 3
      [] type = "float32x3" -> 3
      [] type = "float32" -> 1

\* WGSL: the alignment of vecN<f32> is the size rounded up to a power of two.
AlignOf(type) == Pow2(Log2(2 * Components(type) * FloatBytes - 1))

\* WGSL: the stride of array<T> is the size of T rounded up to its alignment.
ElementStride(type) ==
    CeilDiv(Components(type) * FloatBytes, AlignOf(type)) * AlignOf(type)

\* The element type of the kernels' position arrays.
KernelElement(program) == IF program = "mvc" THEN "vec4<f32>" ELSE "vec3<f32>"

\* Byte offset of component c of positions[p] as a kernel addresses it.
KernelOffset(program, p, c) ==
    p * ElementStride(KernelElement(program)) + c * FloatBytes

\* The `buffers` entry of the render pipeline descriptor.
VertexLayout(program) ==
    IF program = "mvc"
    THEN [arrayStride |-> 16,
          attributes |-> <<[shaderLocation |-> 0, offset |-> 0, format |-> "float32x3"],
                           [shaderLocation |-> 1, offset |-> 12, format |-> "float32"]>>]
    ELSE [arrayStride |-> 12,
          attributes |-> <<[shaderLocation |-> 0, offset |-> 0, format |-> "float32x3"]>>]

\* The byte offsets the vertex stage fetches for vertex p: one per
\* attribute location and component of its format.
VertexFetch(program, p) ==
    LET layout == VertexLayout(program)
    IN UNION {{<<layout.attributes[a].shaderLocation, k,
                 p * layout.arrayStride + layout.attributes[a].offset
                    + k * FloatBytes>> :
                    k \in 0 .. Components(layout.attributes[a].format) - 1} :
              a \in DOMAIN layout.attributes}

\* The particles a program's position buffer holds.
ParticlesOf(program) ==
    IF program = "mvc" THEN Particles ELSE 0 .. posArrayLength - 1

\* C28: the render pipeline's vertex layout matches the packing of the
\* position buffer by the host and by the kernels: for every particle the
\* three floats fetched at location 0 are the bytes the host wrote as
\* x, y, z and the bytes the kernels address as positions[p].xyz, and in
\* the MVC program the element is 16 bytes with the float fetched at
\* location 1 being the fourth, the pinned flag.
C28_LayoutMatchesPacking ==
    \A program \in Programs : \A p \in ParticlesOf(program) :
        /\ \A c \in 0 .. 2 :
              /\ <<0, c, HostOffset(program, p, c)>> \in VertexFetch(program, p)
              /\ KernelOffset(program, p, c) = HostOffset(program, p, c)
        /\ program = "mvc" =>
              /\ VertexLayout(program).arrayStride = 16
              /\ <<1, 0, HostOffset(program, p, 3)>> \in VertexFetch(program, p)
              /\ KernelOffset(program, p, 3) = HostOffset(program, p, 3)
        /\ Cardinality(VertexFetch(program, p)) = HostFloats(program)

\* ls2 is ls with one more callback at its end.
AppendedTo(ls, ls2) ==
    /\ Len(ls2) = Len(ls) + 1
    /\ SubSeq(ls2, 1, Len(ls)) = ls

\* C29: listener lists only grow by appending.  Every step leaves each
\* event's list as it is or appends one callback to it; a step that appends
\* to one list changes no other list and emits nothing; a step that emits
\* (setStrategy, setGravity) changes no list.
C29_ListenersAppendOnly ==
    [][/\ \A e \in Events :
             \/ listeners'[e] = listeners[e]
             \/ /\ AppendedTo(listeners[e], listeners'[e])
                /\ \A e2 \in Events \ {e} : listeners'[e2] = listeners[e2]
                /\ emitLog' = emitLog /\ changes' = changes
       /\ (changes' # changes \/ emitLog' # emitLog) => listeners' = listeners]_vars

\* A second callback was subscribed to gravityChanged and an emit over both
\* lists' events has run since: the lists are as on() left them.
C29_Witness ==
    /\ listeners["gravityChanged"] = <<"updateParams", "h1">>
    /\ listeners["strategyChanged"] = <<"createCompute">>
    /\ emitLog.event = "gravityChanged"
    /\ emitLog.subscribed = <<"updateParams", "h1">>

\* C30: every compute dispatch reads a buffer that holds the initial upload
\* (frame 0) or the output of the dispatch of the frame just before it, a
\* frame that follows a skipped frame included: after a submitted frame f
\* that bound buffers, the buffer it read was last written by the host's
\* upload when f = 0 and by frame f - 1 otherwise.
C30_ReadsPrecedingOutput ==
    (frameLog.outcome = "submitted" /\ frameLog.readBuf # NoBuf) =>
        bufOrigin[frameLog.readBuf] =
            (IF frameLog.frame = 0 THEN OriginUpload ELSE frameLog.frame - 1)

\* C31: submissions happen in increasing frame order and each frame submits
\* at most once, also when renderFrame suspends at its await and the
\* controller goes on scheduling: every frame that reaches the queue has a
\* larger number than the one before it, was called by the controller, and
\* every renderFrame call still suspended is of a later frame.
C31_SubmissionOrder ==
    [][frameLog' # frameLog =>
          /\ frameLog'.frame > frameLog.frame
          /\ frameLog'.frame < frameCount'
          /\ \A k \in 1 .. Len(awaiting') : awaiting'[k] > frameLog'.frame]_vars

\* Three renderFrame calls were suspended on the pending pipeline promise;
\* frames 0 and 1 have resumed and submitted, frame 2 is still suspended.
C31_Witness ==
    /\ viewVariant = "guarded"
    /\ frameLog.outcome = "submitted"
    /\ frameLog.frame = 1
    /\ awaiting = <<2>>

\* C32: after the single start() at most one frame callback is pending at
\* every moment, and frameCount equals the number of renderFrame
\* invocations made so far, thrown frames included.
C32_OnePendingCallback ==
    /\ pendingCallbacks <= 1
    /\ rafPending <=> pendingCallbacks = 1
    /\ frameCount = renderCalls

\* Two loop iterations have run, the second one's renderFrame threw and
\* the loop went on: one callback is pending.
C32_Witness ==
    /\ frameLog.outcome = "threw"
    /\ frameLog.frame = 1
    /\ renderCalls = 2
    /\ pendingCallbacks = 1

\* C33: no kernel invocation changes a particle's pinned flag, so after
\* every frame the particles pinned in the buffer the frame wrote are those
\* pinned in the buffer it read, and are those pinned at construction.
C33_PinnedSetKept ==
    (frameLog.outcome = "submitted" /\ frameLog.writeBuf # NoBuf) =>
        /\ PinnedIn(posBuffers[frameLog.writeBuf])
              = PinnedIn(posBuffers[frameLog.readBuf])
        /\ PinnedIn(posBuffers[frameLog.writeBuf]) = PinnedAtInit

\* C34: setStrategy and setGravity store the new value before they emit:
\* the callbacks of the emit read the new value from the model, the view's
\* callback acts on it, and the model holds it after the call whether or
\* not a callback failed.
C34_StoreBeforeEmit ==
    /\ emitLog.event # "none" => emitLog.observed = emitLog.data
    /\ emitLog.event = "strategyChanged" =>
          /\ strategy = emitLog.data
          /\ (/\ viewVariant = "pingpong"
              /\ WasCalled(emitLog, "createCompute")
              /\ emitLog.throwers \cap PositionsOf(emitLog.subscribed, "createCompute") = {})
             => computePipeline.kind = emitLog.data
    /\ emitLog.event = "gravityChanged" =>
          /\ GravityData(gravityEnabled) = emitLog.data
          /\ (viewVariant = "pingpong" /\ WasCalled(emitLog, "updateParams"))
             => paramBuffer.gravityEnabled = (IF gravityEnabled THEN 1 ELSE 0)

\* setStrategy(massSpring) whose createCompute callback threw out of emit:
\* the model holds the new strategy all the same.
C34_Witness ==
    /\ emitLog.event = "strategyChanged"
    /\ emitLog.outcome = "threw"
    /\ emitLog.observed = "massSpring"
    /\ strategy = "massSpring"
    /\ computePipeline.kind = "pbd"

\* C35: emit(e, payload) invokes exactly the callbacks registered for e,
\* each once per registration and in the emit of its own event only; on an
\* event without callbacks it invokes nothing and returns.  The callbacks
\* the last emit called are the list of its event as it was at the call.
C35_EmitCallsRegistered ==
    /\ Emit(obsVariant, <<>>, {}) = [called |-> <<>>, outcome |-> "returned"]
    /\ emitLog.event # "none" =>
          /\ emitLog.called = emitLog.subscribed
          /\ Len(emitLog.subscribed) <= Len(listeners[emitLog.event])
          /\ emitLog.subscribed
                = SubSeq(listeners[emitLog.event], 1, Len(emitLog.subscribed))

====
